---- MODULE Spec2Model ----
(***************************************************************************)
(* Model of the two pages of ai-cv-evaluator-frontend:                     *)
(*   - the login page (handleLogin, its own fetchJSON),                    *)
(*   - the evaluation page (session bootstrap in useEffect, handleLogout,  *)
(*     handleUpload, handleEvaluate, pollResult and its interval timer).   *)
(* Every await is a point where other events interleave, so each async     *)
(* handler is split at its await: the part before it issues the request,   *)
(* the part after it runs when the request settles.                        *)
(***************************************************************************)
EXTENDS Integers, Sequences, FiniteSets, TLC

(***************************************************************************)
(* Bounds of the model.                                                    *)
(***************************************************************************)
MaxMounts == 2        \* times the evaluation page is mounted
MaxEvaluations == 2   \* handleEvaluate calls
MaxPending == 1       \* unresolved /upload requests
MaxTicks == 2         \* interval ticks counted (where a specification bounds them)

(***************************************************************************)
(* Program constants.                                                      *)
(***************************************************************************)
maxWait == 90000
ProgressStepInProgress == 8
ProgressCapInProgress == 95
ProgressStepNotFound == 5
ProgressCapNotFound == 85
ProgressCompleted == 100

\* The clock (Date.now()) moves in steps of the timeout, so that
\* "elapsed = maxWait" and "elapsed > maxWait" are both reached.
ClockStep == maxWait

(***************************************************************************)
(* Values.                                                                 *)
(***************************************************************************)
Absent == "<absent>"          \* undefined / null / missing field / no item

MsgSelectBoth == "Select both CV and Project files"
MsgTimedOut == "Evaluation timed out. Please try again later."
MsgEvaluationFailed == "Evaluation failed"
MsgRequestFailed == "Request failed"
MsgInvalidLogin == "Invalid login response"
MsgLoginFailed == "Login failed"
MsgFailedToFetch == "Failed to fetch"

\* JavaScript truthiness of a string-or-undefined value, and a || b.
Falsy(v) == v \in {Absent, ""}
OrElse(a, b) == IF Falsy(a) THEN b ELSE a

DataFields == {"error", "status", "result", "id", "cv_file_id",
               "project_file_id", "access_token", "tenant_id"}
EmptyData == [f \in DataFields |-> Absent]

\* An HTTP exchange as fetch() sees it.  net = FALSE: fetch() itself rejects.
\* text is the body: parsable as JSON (json = TRUE) to data, or not.
Json(data) == [json |-> TRUE, data |-> data]
Unparsable == [json |-> FALSE, data |-> EmptyData]
Response(st, stText, body) ==
    [net |-> TRUE, status |-> st, statusText |-> stText, text |-> body]
NetworkFailure ==
    [net |-> FALSE, status |-> 0, statusText |-> "", text |-> Unparsable]

ResOk(res) == res.status >= 200 /\ res.status <= 299

\* data = text ? JSON.parse(text) : {}, with the parse error swallowed.
ParseBody(text) == IF text.json THEN text.data ELSE EmptyData

Returned(data) == [threw |-> FALSE, data |-> data, message |-> ""]
Threw(msg) == [threw |-> TRUE, data |-> EmptyData, message |-> msg]

\* fetchJSON of the evaluation page: 404 is thrown as Error("404").
StatusIsNotFound(res) == res.status = 404
fetchJSON(res) ==
    IF ~res.net THEN Threw(MsgFailedToFetch)
    ELSE IF StatusIsNotFound(res) THEN Threw("404")
    ELSE LET data == ParseBody(res.text) IN
         IF ~ResOk(res)
         THEN Threw(OrElse(data.error, OrElse(res.statusText, MsgRequestFailed)))
         ELSE Returned(data)

\* fetchJSON of the login page: no 404 case.
fetchJSONLogin(res) ==
    IF ~res.net THEN Threw(MsgFailedToFetch)
    ELSE LET data == ParseBody(res.text) IN
         IF ~ResOk(res)
         THEN Threw(OrElse(data.error, OrElse(res.statusText, MsgRequestFailed)))
         ELSE Returned(data)

(***************************************************************************)
(* What the backend may answer (the backend is external: any of these).    *)
(***************************************************************************)
ServerErrors ==
    { Response(500, "Internal Server Error", Unparsable),
      NetworkFailure }

UploadResponses ==
    { Response(200, "OK", Json([EmptyData EXCEPT !.cv_file_id = "cv-1",
                                             !.project_file_id = "pr-1"])) }
    \cup ServerErrors

EvaluateResponses(jobId) ==
    { Response(200, "OK", Json([EmptyData EXCEPT !.id = jobId, !.status = "queued"])) }
    \cup ServerErrors

ResultPayload == "result-payload"
JobId(n) == "job-" \o ToString(n)

ResultResponses(jobId) ==
    { Response(200, "OK", Json([EmptyData EXCEPT !.id = jobId, !.status = "queued"])),
      Response(200, "OK", Json([EmptyData EXCEPT !.id = jobId, !.status = "processing"])),
      Response(200, "OK", Json([EmptyData EXCEPT !.id = jobId, !.status = "completed",
                                             !.result = ResultPayload])),
      Response(200, "OK", Json([EmptyData EXCEPT !.id = jobId, !.status = "failed",
                                             !.error = "bad input"])),
      Response(200, "OK", Json([EmptyData EXCEPT !.id = jobId, !.status = "failed"])),
      Response(404, "Not Found", Unparsable),
      Response(500, "Internal Server Error", Json([EmptyData EXCEPT !.error = "404"])),
      NetworkFailure }

LoginResponses ==
    { Response(200, "OK", Json([EmptyData EXCEPT !.access_token = "tok",
                                             !.tenant_id = "ten"])),
      Response(200, "OK", Json([EmptyData EXCEPT !.access_token = "tok"])),
      Response(200, "OK", Json([EmptyData EXCEPT !.tenant_id = "ten"])),
      Response(401, "Unauthorized", Json([EmptyData EXCEPT !.error = "bad credentials"])),
      NetworkFailure }

\* Math.random() * n lies in [0, n); the model draws its integer extremes.
RandomDraws == {"low", "high"}
RandomTimes(rand, n) == IF rand = "low" THEN 0 ELSE n - 1

Min(a, b) == IF a <= b THEN a ELSE b

(***************************************************************************)
(* State.                                                                  *)
(***************************************************************************)
VARIABLES
    page,          \* "login" | "evaluation": the page that is mounted
    nav,           \* pending router.push target: "none" | "/" | "/evaluation"
    inst,          \* the mounted EvaluationPage instance (0: none mounted)
    mounts,        \* EvaluationPage instances mounted so far
    lsAuthToken,   \* localStorage "authToken" (Absent: no item)
    lsTenantId,    \* localStorage "tenantId"
    token, tenantId,            \* useState of EvaluationPage
    cv, project,                \* a File is selected (TRUE) or null (FALSE)
    cvId, projectId,
    jobDesc, brief,
    status, result, error, progress,
    email, password, loading, loginError,   \* useState of the login page
    loginReqs,     \* unresolved /auth/token requests
    uploadReqs,    \* unresolved /upload requests, each with its headers
    evalReqs,      \* unresolved /evaluate requests, each with headers and body
    loops,         \* the pollResult closures created so far
    nEval,         \* handleEvaluate calls so far
    nTicks,        \* interval ticks so far, counted up to MaxTicks
    uncaught,      \* a handler's promise was rejected with nobody to catch it
    last           \* the handler step that has just run (history)

sessionVars == <<lsAuthToken, lsTenantId>>
routeVars == <<page, nav, inst, mounts>>
inputVars == <<cv, project, jobDesc, brief>>
fileIdVars == <<cvId, projectId>>
credVars == <<token, tenantId>>
jobVars == <<status, result, error, progress>>
loginVars == <<email, password, loading, loginError, loginReqs>>
netVars == <<uploadReqs, evalReqs, loops, nEval, nTicks>>
vars == <<routeVars, sessionVars, credVars, inputVars, fileIdVars, jobVars,
          loginVars, netVars, uncaught, last>>

\* last: the handler step that has just run, for the steps the properties
\* below speak about; Other for the rest.
Last(op, l, cls) == [op |-> op, loop |-> l, cls |-> cls]
Op(op) == Last(op, 0, "")
Other == Op("")

\* The values useState gives a freshly mounted EvaluationPage.
EvaluationPageInitial ==
    /\ token = "" /\ tenantId = ""
    /\ cv = FALSE /\ project = FALSE
    /\ cvId = "" /\ projectId = ""
    /\ jobDesc = "" /\ brief = ""
    /\ status = "idle" /\ result = Absent /\ error = "" /\ progress = 0

\* The values useState gives a freshly mounted login page.
LoginPageInitial ==
    /\ email = "" /\ password = "" /\ loading = FALSE /\ loginError = ""

\* The application is opened on the login page with an empty localStorage.
Init ==
    /\ page = "login" /\ nav = "none" /\ inst = 0 /\ mounts = 0
    /\ lsAuthToken = Absent /\ lsTenantId = Absent
    /\ EvaluationPageInitial
    /\ LoginPageInitial
    /\ loginReqs = 0
    /\ uploadReqs = <<>> /\ evalReqs = <<>> /\ loops = <<>>
    /\ nEval = 0 /\ nTicks = 0
    /\ uncaught = FALSE
    /\ last = Op("init")

Remove(seq, i) == SubSeq(seq, 1, i - 1) \o SubSeq(seq, i + 1, Len(seq))

(***************************************************************************)
(* Mounting.  EvaluationPage's useState initial values, then its useEffect:*)
(* read the session, router.push("/") if either item is missing, and copy  *)
(* both into state.                                                        *)
(***************************************************************************)
SessionMissing(t, tid) == Falsy(t) \/ Falsy(tid)

MountEvaluationPage ==
    LET t == OrElse(lsAuthToken, "")
        tid == OrElse(lsTenantId, "")
    IN /\ page' = "evaluation"
       /\ inst' = mounts + 1
       /\ mounts' = mounts + 1
       /\ nav' = IF SessionMissing(t, tid) THEN "/" ELSE "none"
       /\ token' = t
       /\ tenantId' = tid
       /\ cv' = FALSE /\ project' = FALSE
       /\ cvId' = "" /\ projectId' = ""
       /\ jobDesc' = "" /\ brief' = ""
       /\ status' = "idle" /\ result' = Absent /\ error' = "" /\ progress' = 0
       /\ email' = "" /\ password' = "" /\ loading' = FALSE /\ loginError' = ""

MountLoginPage ==
    /\ page' = "login"
    /\ inst' = 0
    /\ nav' = "none"
    /\ UNCHANGED mounts
    /\ token' = "" /\ tenantId' = ""
    /\ cv' = FALSE /\ project' = FALSE
    /\ cvId' = "" /\ projectId' = ""
    /\ jobDesc' = "" /\ brief' = ""
    /\ status' = "idle" /\ result' = Absent /\ error' = "" /\ progress' = 0
    /\ email' = "" /\ password' = "" /\ loading' = FALSE /\ loginError' = ""

\* A router.push completes: client-side navigation.  Timers and unresolved
\* requests of the page that is left stay alive.
Navigate ==
    /\ nav # "none"
    /\ IF nav = "/evaluation"
       THEN mounts < MaxMounts /\ MountEvaluationPage
       ELSE MountLoginPage
    /\ UNCHANGED <<sessionVars, loginReqs, netVars, uncaught>>
    /\ last' = Op("navigate")

\* The user opens /evaluation by its URL: a document load, which discards
\* every timer and unresolved request of the previous document.
OpenEvaluationUrl ==
    /\ mounts < MaxMounts
    /\ MountEvaluationPage
    /\ loginReqs' = 0
    /\ uploadReqs' = <<>> /\ evalReqs' = <<>> /\ loops' = <<>>
    /\ UNCHANGED <<sessionVars, nEval, nTicks, uncaught>>
    /\ last' = Op("open")

(***************************************************************************)
(* EvaluationPage: inputs and handleLogout.                                *)
(***************************************************************************)
OnEvaluationPage == page = "evaluation"

SetCv(f) ==
    /\ OnEvaluationPage
    /\ cv' = f
    /\ UNCHANGED <<routeVars, sessionVars, credVars, project, jobDesc, brief,
                   fileIdVars, jobVars, loginVars, netVars, uncaught>>
    /\ last' = Other

SetProject(f) ==
    /\ OnEvaluationPage
    /\ project' = f
    /\ UNCHANGED <<routeVars, sessionVars, credVars, cv, jobDesc, brief,
                   fileIdVars, jobVars, loginVars, netVars, uncaught>>
    /\ last' = Other

SetJobDesc(v) ==
    /\ OnEvaluationPage
    /\ jobDesc' = v
    /\ UNCHANGED <<routeVars, sessionVars, credVars, cv, project, brief,
                   fileIdVars, jobVars, loginVars, netVars, uncaught>>
    /\ last' = Other

SetBrief(v) ==
    /\ OnEvaluationPage
    /\ brief' = v
    /\ UNCHANGED <<routeVars, sessionVars, credVars, cv, project, jobDesc,
                   fileIdVars, jobVars, loginVars, netVars, uncaught>>
    /\ last' = Other

handleLogout ==
    /\ OnEvaluationPage
    /\ lsAuthToken' = Absent
    /\ lsTenantId' = Absent
    /\ nav' = "/"
    /\ UNCHANGED <<page, inst, mounts, credVars, inputVars, fileIdVars, jobVars,
                   loginVars, netVars, uncaught>>
    /\ last' = Op("logout")

(***************************************************************************)
(* handleUpload, up to its await, and its continuation.                    *)
(***************************************************************************)
FilesMissing_Both == ~cv /\ ~project
FilesMissing == ~cv \/ ~project
UploadDisabled == ~cv \/ ~project

handleUpload ==
    /\ OnEvaluationPage
    /\ IF FilesMissing
       THEN /\ error' = MsgSelectBoth
            /\ UNCHANGED uploadReqs
       ELSE /\ Len(uploadReqs) < MaxPending
            /\ error' = ""
            /\ uploadReqs' = Append(uploadReqs,
                   [inst |-> inst, token |-> token, tenantId |-> tenantId])
    /\ UNCHANGED <<routeVars, sessionVars, credVars, inputVars, fileIdVars,
                   status, result, progress, loginVars, evalReqs, loops, nEval,
                   nTicks,                   uncaught>>
    /\ last' = Op(IF FilesMissing THEN "uploadRejected" ELSE "upload")

\* The /upload request settles.  handleUpload has no try/catch: a rejection
\* of fetchJSON rejects the promise handleUpload returned, which the onClick
\* caller drops.
UploadRejection(r) == r.threw

UploadSettle(i, res) ==
    LET req == uploadReqs[i]
        r == fetchJSON(res)
        mine == req.inst = inst
    IN /\ uploadReqs' = Remove(uploadReqs, i)
       /\ IF UploadRejection(r)
          THEN /\ uncaught' = TRUE
               /\ UNCHANGED fileIdVars
          ELSE /\ UNCHANGED uncaught
               /\ cvId' = IF mine THEN r.data.cv_file_id ELSE cvId
               /\ projectId' = IF mine THEN r.data.project_file_id ELSE projectId
       /\ UNCHANGED <<routeVars, sessionVars, credVars, inputVars, jobVars,
                      loginVars, evalReqs, loops, nEval, nTicks>>
       /\ last' = Op(IF r.threw THEN "uploadFailed" ELSE "uploadDone")


(***************************************************************************)
(* handleEvaluate, up to its await, and its continuation (try/catch).      *)
(***************************************************************************)
EvaluateDisabled_TextsOnly == Falsy(jobDesc) \/ Falsy(brief)

EvaluateDisabled ==
    Falsy(cvId) \/ Falsy(projectId) \/ Falsy(jobDesc) \/ Falsy(brief)

handleEvaluate ==
    /\ OnEvaluationPage
    /\ nEval < MaxEvaluations
    /\ nEval' = nEval + 1
    /\ error' = ""
    /\ status' = "queued"
    /\ result' = Absent
    /\ progress' = 0
    /\ evalReqs' = Append(evalReqs,
           [inst |-> inst, token |-> token, tenantId |-> tenantId,
            cv_file_id |-> cvId, project_file_id |-> projectId,
            job_description |-> jobDesc, study_case_brief |-> brief])
    /\ UNCHANGED <<routeVars, sessionVars, credVars, inputVars, fileIdVars,
                   loginVars, uploadReqs, loops, nTicks, uncaught>>
    /\ last' = Op("evaluate")

\* pollResult(id): a new closure with its own progressValue, startTime and
\* interval.  Nothing in it refers to an interval created earlier.  The
\* model keeps elapsed = Date.now() - startTime instead of the two times.
NewLoop(owner, id) ==
    [inst |-> owner, id |-> id, progressValue |-> 0, elapsed |-> 0,
     active |-> TRUE, inflight |-> 0]

pollResult(owner, id) == loops' = Append(loops, NewLoop(owner, id))

EvaluateSettle(i, res) ==
    LET req == evalReqs[i]
        r == fetchJSON(res)
        mine == req.inst = inst
    IN /\ evalReqs' = Remove(evalReqs, i)
       /\ IF ~r.threw
          THEN /\ pollResult(req.inst, r.data.id)
               /\ UNCHANGED error
          ELSE /\ error' = IF mine THEN r.message ELSE error
               /\ UNCHANGED loops
       /\ UNCHANGED <<routeVars, sessionVars, credVars, inputVars, fileIdVars,
                      status, result, progress, loginVars, uploadReqs, nEval,
                      nTicks,                      uncaught>>
       /\ last' = Last(IF r.threw THEN "evaluateFailed" ELSE "pollResult",
                       IF r.threw THEN 0 ELSE Len(loops) + 1, "")

(***************************************************************************)
(* The interval callback of pollResult: a tick issues the /result request; *)
(* the rest of the callback runs when that request settles.                *)
(***************************************************************************)
Loops == 1..Len(loops)
ActiveLoops == {l \in Loops : loops[l].active}

Tick(l) ==
    /\ loops[l].active
    /\ loops' = [loops EXCEPT ![l].inflight = @ + 1]
    /\ nTicks' = Min(nTicks + 1, MaxTicks)
    /\ UNCHANGED <<routeVars, sessionVars, credVars, inputVars, fileIdVars,
                   jobVars, loginVars, uploadReqs, evalReqs, nEval, uncaught>>
    /\ last' = Other

\* A tick whose /result request is never answered: the callback stays at
\* its await for ever, so nothing after the fetch runs, the timeout check
\* included.  The request needs no record, there being no continuation.
TickUnresolved(l) ==
    /\ loops[l].active
    /\ nTicks' = Min(nTicks + 1, MaxTicks)
    /\ UNCHANGED <<routeVars, sessionVars, credVars, inputVars, fileIdVars,
                   jobVars, loginVars, uploadReqs, evalReqs, loops, nEval,
                   uncaught>>
    /\ last' = Other

\* What the backend said, as the HTTP exchange shows it (history only).
ResponseClass(res) ==
    IF ~res.net THEN "error"
    ELSE IF res.status = 404 THEN "404"
    ELSE IF ~ResOk(res) THEN "error"
    ELSE ParseBody(res.text).status

Elapsed(l) == loops[l].elapsed

\* err.message === "404"
IsSoftRetry_Never(message) == FALSE
IsSoftRetry(message) == message = "404"
\* Math.min(progressValue + Math.random() * 8, 95)
InProgressValue(pv, rand) ==
    Min(pv + RandomTimes(rand, ProgressStepInProgress), ProgressCapInProgress)
\* Math.min(progressValue + Math.random() * 5, 85)
NotFoundValue(pv, rand) ==
    Min(pv + RandomTimes(rand, ProgressStepNotFound), ProgressCapNotFound)
\* Date.now() - startTime > maxWait
TimedOut(l) == Elapsed(l) > maxWait
\* the branches that call clearInterval(interval)
ClearsOnCompleted == TRUE
ClearsOnFailed == TRUE
ClearsOnError == TRUE
ClearsOnTimeout == TRUE

PollSettle(l, res, rand) ==
    LET loop == loops[l]
        r == fetchJSON(res)
        mine == loop.inst = inst
        completed == ~r.threw /\ r.data.status = "completed"
        failed == ~r.threw /\ r.data.status = "failed"
        inProgress == ~r.threw /\ ~completed /\ ~failed
        notFound == r.threw /\ IsSoftRetry(r.message)
        hardError == r.threw /\ ~notFound
        pv == IF inProgress THEN InProgressValue(loop.progressValue, rand)
              ELSE IF notFound THEN NotFoundValue(loop.progressValue, rand)
              ELSE loop.progressValue
        timedOut == TimedOut(l)
        cleared == \/ completed /\ ClearsOnCompleted
                   \/ failed /\ ClearsOnFailed
                   \/ hardError /\ ClearsOnError
                   \/ timedOut /\ ClearsOnTimeout
        cls == ResponseClass(res)
    IN /\ loop.inflight > 0
       /\ loops' = [loops EXCEPT ![l].inflight = @ - 1,
                                 ![l].progressValue = pv,
                                 ![l].active = @ /\ ~cleared]
       /\ status' = IF mine /\ ~r.threw THEN r.data.status ELSE status
       /\ result' = IF mine /\ completed THEN r.data.result ELSE result
       /\ progress' = IF ~mine THEN progress
                      ELSE IF completed THEN ProgressCompleted
                      ELSE IF inProgress \/ notFound THEN pv
                      ELSE progress
       /\ error' = IF ~mine THEN error
                   ELSE IF timedOut THEN MsgTimedOut
                   ELSE IF failed THEN OrElse(r.data.error, MsgEvaluationFailed)
                   ELSE IF hardError THEN r.message
                   ELSE error
       /\ UNCHANGED <<routeVars, sessionVars, credVars, inputVars, fileIdVars,
                      loginVars, uploadReqs, evalReqs, nEval, nTicks, uncaught>>
       /\ last' = Last("poll", l, cls)

\* Time passes: Date.now() grows by ClockStep, and with it the elapsed time
\* of every loop.  Beyond ClockLimit (> maxWait) a loop's elapsed time is
\* not followed further: the callback only asks whether it exceeds maxWait.
\* Nor is it followed for a loop whose callback will never run again (the
\* interval is cleared and no request is unresolved).
ClockLimit == maxWait + ClockStep
Live(l) == loops[l].active \/ loops[l].inflight > 0
Advance ==
    /\ \E l \in Loops : Live(l) /\ loops[l].elapsed < ClockLimit
    /\ loops' = [l \in Loops |->
                   IF Live(l)
                   THEN [loops[l] EXCEPT !.elapsed = Min(@ + ClockStep, ClockLimit)]
                   ELSE loops[l]]
    /\ UNCHANGED <<routeVars, sessionVars, credVars, inputVars, fileIdVars,
                   jobVars, loginVars, uploadReqs, evalReqs, nEval, nTicks, uncaught>>
    /\ last' = Other

(***************************************************************************)
(* The login page.                                                         *)
(***************************************************************************)
OnLoginPage == page = "login"

SetEmail(v) ==
    /\ OnLoginPage
    /\ email' = v
    /\ UNCHANGED <<routeVars, sessionVars, credVars, inputVars, fileIdVars,
                   jobVars, password, loading, loginError, loginReqs, netVars,
                   uncaught>>
    /\ last' = Other

SetPassword(v) ==
    /\ OnLoginPage
    /\ password' = v
    /\ UNCHANGED <<routeVars, sessionVars, credVars, inputVars, fileIdVars,
                   jobVars, email, loading, loginError, loginReqs, netVars,
                   uncaught>>
    /\ last' = Other

LoginDisabled == loading \/ Falsy(email) \/ Falsy(password)

handleLogin ==
    /\ OnLoginPage
    /\ loginError' = ""
    /\ loading' = TRUE
    /\ loginReqs' = loginReqs + 1
    /\ UNCHANGED <<routeVars, sessionVars, credVars, inputVars, fileIdVars,
                   jobVars, email, password, netVars, uncaught>>
    /\ last' = Op("login")

InvalidLoginResponse_Both(data) == Falsy(data.access_token) /\ Falsy(data.tenant_id)
InvalidLoginResponse(data) == Falsy(data.access_token) \/ Falsy(data.tenant_id)

LoginSettle(res) ==
    LET r == fetchJSONLogin(res)
        thrown == IF r.threw THEN r.message
                  ELSE IF InvalidLoginResponse(r.data) THEN MsgInvalidLogin
                  ELSE ""
        ok == ~r.threw /\ ~InvalidLoginResponse(r.data)
    IN /\ loginReqs > 0
       /\ loginReqs' = loginReqs - 1
       /\ IF ok
          THEN /\ lsAuthToken' = r.data.access_token
               /\ lsTenantId' = r.data.tenant_id
               /\ nav' = "/evaluation"
               /\ UNCHANGED loginError
          ELSE /\ loginError' = OrElse(thrown, MsgLoginFailed)
               /\ UNCHANGED <<sessionVars, nav>>
       /\ loading' = FALSE
       /\ UNCHANGED <<page, inst, mounts, credVars, inputVars, fileIdVars,
                      jobVars, email, password, netVars, uncaught>>
       /\ last' = Op(IF ok THEN "loginDone" ELSE "loginFailed")

(***************************************************************************)
(* Specifications.                                                         *)
(***************************************************************************)
Texts == {"", "text"}

\* The pages as the user drives them: a handler runs when its button is
\* enabled and clicked.
Next ==
    \/ Navigate
    \/ OpenEvaluationUrl
    \/ \E f \in BOOLEAN : SetCv(f)
    \/ \E f \in BOOLEAN : SetProject(f)
    \/ \E v \in Texts : SetJobDesc(v)
    \/ \E v \in Texts : SetBrief(v)
    \/ handleLogout
    \/ (~UploadDisabled /\ handleUpload)
    \/ \E i \in 1..Len(uploadReqs) : \E res \in UploadResponses : UploadSettle(i, res)
    \/ (~EvaluateDisabled /\ handleEvaluate)
    \/ \E i \in 1..Len(evalReqs) :
          \E res \in EvaluateResponses(JobId(Len(loops) + 1)) : EvaluateSettle(i, res)
    \/ \E l \in Loops : (nTicks < MaxTicks /\ Tick(l))
    \/ \E l \in Loops : \E res \in ResultResponses(loops[l].id) :
          \E rand \in RandomDraws : PollSettle(l, res, rand)
    \/ Advance
    \/ \E v \in Texts : SetEmail(v)
    \/ \E v \in Texts : SetPassword(v)
    \/ (~LoginDisabled /\ handleLogin)
    \/ \E res \in LoginResponses : LoginSettle(res)

Spec == Init /\ [][Next]_vars

(***************************************************************************)
(* The polling state machine on its own.  It starts where the user has     *)
(* logged in, uploaded both files and entered both texts (Ready, a state   *)
(* Spec reaches), and follows evaluations and their polling loops.         *)
(***************************************************************************)
Ready ==
    /\ page = "evaluation" /\ nav = "none" /\ inst = 1 /\ mounts = 1
    /\ lsAuthToken = "tok" /\ lsTenantId = "ten"
    /\ token = "tok" /\ tenantId = "ten"
    /\ cv = TRUE /\ project = TRUE
    /\ cvId = "cv-1" /\ projectId = "pr-1"
    /\ jobDesc = "text" /\ brief = "text"
    /\ status = "idle" /\ result = Absent /\ error = "" /\ progress = 0
    /\ LoginPageInitial
    /\ loginReqs = 0
    /\ uploadReqs = <<>> /\ evalReqs = <<>> /\ loops = <<>>
    /\ nEval = 0 /\ nTicks = 0
    /\ uncaught = FALSE

InitReady == Ready /\ last = Op("uploadDone")

NextPoll ==
    \/ (~EvaluateDisabled /\ handleEvaluate)
    \/ \E i \in 1..Len(evalReqs) :
          \E res \in EvaluateResponses(JobId(Len(loops) + 1)) : EvaluateSettle(i, res)
    \/ \E l \in Loops : (nTicks < MaxTicks /\ Tick(l))
    \/ \E l \in Loops : \E res \in ResultResponses(loops[l].id) :
          \E rand \in RandomDraws : PollSettle(l, res, rand)
    \/ Advance

SpecPoll == InitReady /\ [][NextPoll]_vars

\* One evaluation, polled for as long as its timer runs, each request
\* settling before the next tick.
NextLong ==
    \/ (~EvaluateDisabled /\ nEval = 0 /\ handleEvaluate)
    \/ \E i \in 1..Len(evalReqs) :
          \E res \in EvaluateResponses(JobId(Len(loops) + 1)) : EvaluateSettle(i, res)
    \/ \E l \in Loops : (loops[l].inflight = 0 /\ Tick(l))
    \/ \E l \in Loops : \E res \in ResultResponses(loops[l].id) :
          \E rand \in RandomDraws : PollSettle(l, res, rand)
    \/ Advance

SpecLong == InitReady /\ [][NextLong]_vars

(***************************************************************************)
(* Session and upload: login, page entry, logout and the upload action,    *)
(* without evaluations.                                                    *)
(***************************************************************************)
NextSession ==
    \/ Navigate
    \/ OpenEvaluationUrl
    \/ \E f \in BOOLEAN : SetCv(f)
    \/ \E f \in BOOLEAN : SetProject(f)
    \/ handleLogout
    \/ (~UploadDisabled /\ handleUpload)
    \/ \E i \in 1..Len(uploadReqs) : \E res \in UploadResponses : UploadSettle(i, res)
    \/ \E v \in Texts : SetEmail(v)
    \/ \E v \in Texts : SetPassword(v)
    \/ (~LoginDisabled /\ handleLogin)
    \/ \E res \in LoginResponses : LoginSettle(res)

SpecSession == Init /\ [][NextSession]_vars

\* The same, with handleUpload called as a function, whatever the state of
\* the button that is bound to it.
NextHandlers ==
    \/ Navigate
    \/ OpenEvaluationUrl
    \/ \E f \in BOOLEAN : SetCv(f)
    \/ \E f \in BOOLEAN : SetProject(f)
    \/ handleLogout
    \/ handleUpload
    \/ \E i \in 1..Len(uploadReqs) : \E res \in UploadResponses : UploadSettle(i, res)
    \/ \E v \in Texts : SetEmail(v)
    \/ \E v \in Texts : SetPassword(v)
    \/ (~LoginDisabled /\ handleLogin)
    \/ \E res \in LoginResponses : LoginSettle(res)

SpecHandlers == Init /\ [][NextHandlers]_vars

(***************************************************************************)
(* One evaluation under the scheduling the browser guarantees: time        *)
(* passes and a live interval fires.  Nothing guarantees that a fetch is   *)
(* ever answered (it has no timeout), so PollSettle and EvaluateSettle     *)
(* carry no fairness.                                                      *)
(***************************************************************************)
TimerFires == \E l \in Loops : (loops[l].inflight = 0 /\ Tick(l)) \/ TickUnresolved(l)

NextFair ==
    \/ (~EvaluateDisabled /\ nEval = 0 /\ handleEvaluate)
    \/ \E i \in 1..Len(evalReqs) :
          \E res \in EvaluateResponses(JobId(Len(loops) + 1)) : EvaluateSettle(i, res)
    \/ \E l \in Loops : (loops[l].inflight = 0 /\ Tick(l))
    \/ \E l \in Loops : TickUnresolved(l)
    \/ \E l \in Loops : \E res \in ResultResponses(loops[l].id) :
          \E rand \in RandomDraws : PollSettle(l, res, rand)
    \/ Advance

SpecFair ==
    InitReady /\ [][NextFair]_vars /\ WF_vars(Advance) /\ WF_vars(TimerFires)

(***************************************************************************)
(* One evaluation, and leaving the page by logout while it is polled.      *)
(***************************************************************************)
NextLeave ==
    \/ (~EvaluateDisabled /\ nEval = 0 /\ handleEvaluate)
    \/ \E i \in 1..Len(evalReqs) :
          \E res \in EvaluateResponses(JobId(Len(loops) + 1)) : EvaluateSettle(i, res)
    \/ \E l \in Loops : (nTicks < MaxTicks /\ Tick(l))
    \/ \E l \in Loops : \E res \in ResultResponses(loops[l].id) :
          \E rand \in RandomDraws : PollSettle(l, res, rand)
    \/ Advance
    \/ handleLogout
    \/ Navigate

SpecLeave == InitReady /\ [][NextLeave]_vars

(***************************************************************************)
(* The two forms of the evaluation page: upload and evaluation.  It starts *)
(* where the user has logged in and chosen both files (Entered, a state    *)
(* Spec reaches), before anything is uploaded or typed.                    *)
(***************************************************************************)
Entered ==
    /\ page = "evaluation" /\ nav = "none" /\ inst = 1 /\ mounts = 1
    /\ lsAuthToken = "tok" /\ lsTenantId = "ten"
    /\ token = "tok" /\ tenantId = "ten"
    /\ cv = TRUE /\ project = TRUE
    /\ cvId = "" /\ projectId = ""
    /\ jobDesc = "" /\ brief = ""
    /\ status = "idle" /\ result = Absent /\ error = "" /\ progress = 0
    /\ LoginPageInitial
    /\ loginReqs = 0
    /\ uploadReqs = <<>> /\ evalReqs = <<>> /\ loops = <<>>
    /\ nEval = 0 /\ nTicks = 0
    /\ uncaught = FALSE

InitForm == Entered /\ last = Other

NextForm ==
    \/ \E v \in Texts : SetJobDesc(v)
    \/ \E v \in Texts : SetBrief(v)
    \/ (~UploadDisabled /\ handleUpload)
    \/ \E i \in 1..Len(uploadReqs) : \E res \in UploadResponses : UploadSettle(i, res)
    \/ (~EvaluateDisabled /\ handleEvaluate)
    \/ \E i \in 1..Len(evalReqs) :
          \E res \in EvaluateResponses(JobId(Len(loops) + 1)) : EvaluateSettle(i, res)

SpecForm == InitForm /\ [][NextForm]_vars

(***************************************************************************)
(* Properties.                                                             *)
(***************************************************************************)
NotFoundResponse == Response(404, "Not Found", Unparsable)
InProgressResponses(jobId) ==
    { Response(200, "OK", Json([EmptyData EXCEPT !.id = jobId, !.status = st]))
        : st \in {"queued", "processing"} }

\* C1: in every reachable state at most one interval created by pollResult
\* is live.
C1_AtMostOneActiveLoop == Cardinality(ActiveLoops) <= 1

\* C2 (as stated): a poll tick answered with HTTP 404 never cancels the
\* timer and never changes error, whatever the elapsed time.
C2_NotFoundNeverTerminates ==
    [][\A l \in Loops : \A rand \in RandomDraws :
          PollSettle(l, NotFoundResponse, rand)
          => /\ loops'[l].active = loops[l].active
             /\ error' = error]_vars

\* C2 (amended): a poll tick answered with HTTP 404 and handled no later
\* than maxWait after the loop started leaves the timer as it was and error
\* unchanged; handled later than that, the same callback's timeout check
\* cancels the timer and records the timeout message.
C2_NotFoundWithinTimeout ==
    [][\A l \in Loops : \A rand \in RandomDraws :
          PollSettle(l, NotFoundResponse, rand)
          => IF Elapsed(l) > maxWait
             THEN /\ ~loops'[l].active
                  /\ loops[l].inst = inst => error' = MsgTimedOut
             ELSE /\ loops'[l].active = loops[l].active
                  /\ error' = error]_vars

\* A 404 has just been handled within the timeout: the timer is still live
\* and no error is shown.
C2_Witness ==
    /\ last.op = "poll" /\ last.cls = "404"
    /\ Elapsed(last.loop) <= maxWait
    /\ loops[last.loop].active
    /\ error = ""
    /\ progress > 0

\* C3: after a poll tick answered 404, progress lies in
\* [previous progress, min(previous progress + 5, 85)].
C3_NotFoundProgressRange ==
    [][\A l \in Loops : \A rand \in RandomDraws :
          PollSettle(l, NotFoundResponse, rand)
          => /\ progress' >= progress
             /\ progress' <= Min(progress + 5, 85)]_vars

\* C4: after a poll tick answered Queued or Processing, progress lies in
\* [previous progress, min(previous progress + 8, 95)], previous progress
\* being the displayed one.
C4_InProgressProgressRange ==
    [][\A l \in Loops : \A res \in InProgressResponses(loops[l].id) :
          \A rand \in RandomDraws :
             PollSettle(l, res, rand)
             => /\ progress' >= progress
                /\ progress' <= Min(progress + 8, 95)]_vars

\* C5: once a poll response has set status to Completed, status stays
\* Completed and progress stays 100 until a new evaluation is started; here
\* for the case of a single submitted job.
C5_CompletedIsFinal ==
    [][(/\ Len(loops) = 1 /\ evalReqs = <<>>
        /\ status = "completed"
        /\ nEval' = nEval /\ inst' = inst)
       => (status' = "completed" /\ progress' = 100)]_vars

\* C6: when a poll tick has observed Failed, a request failure other than
\* HTTP 404, or more than maxWait elapsed, the loop's timer is cancelled.
C6_TerminalCancelsTimer ==
    (/\ last.op = "poll"
     /\ \/ last.cls \in {"failed", "error"}
        \/ Elapsed(last.loop) > maxWait)
    => ~loops[last.loop].active

\* C7: a timer tick that fires more than maxWait after submission records
\* the timeout error and stops polling, whether or not its request has
\* resolved.
C7_LateTickTimesOut ==
    [][\A l \in Loops :
          (Tick(l) /\ Elapsed(l) > maxWait)
          => /\ ~loops'[l].active
             /\ error' = MsgTimedOut]_vars

\* C8: no failure of a user action escapes its handler, and each one is
\* recorded as the page's error message.
C8_FailuresAreCaught ==
    /\ ~uncaught
    /\ last.op \in {"uploadFailed", "evaluateFailed"} => error # ""
    /\ last.op = "loginFailed" => loginError # ""

\* C9: no /upload or /evaluate request is issued with an empty token or an
\* empty tenant id.
C9_NoRequestWithoutSession ==
    /\ \A i \in 1..Len(uploadReqs) :
          ~Falsy(uploadReqs[i].token) /\ ~Falsy(uploadReqs[i].tenantId)
    /\ \A i \in 1..Len(evalReqs) :
          ~Falsy(evalReqs[i].token) /\ ~Falsy(evalReqs[i].tenantId)

\* C10: handleUpload called with the CV file or the project file absent
\* records the validation error, issues no request and leaves cvId and
\* projectId unchanged.
C10_UploadRejectedLocally ==
    [][(handleUpload /\ (~cv \/ ~project))
       => /\ error' = MsgSelectBoth
          /\ uploadReqs' = uploadReqs
          /\ cvId' = cvId /\ projectId' = projectId]_vars

\* handleUpload has just rejected a call made with exactly one file chosen.
C10_Witness ==
    /\ last.op = "uploadRejected"
    /\ cv # project
    /\ error = MsgSelectBoth
    /\ uploadReqs = <<>>

\* C11 (as stated): no /evaluate request is issued and no polling loop is
\* started in a state where cvId, projectId, jobDesc or brief is empty.
C11_NothingStartsWhileFormIncomplete ==
    [][(Len(evalReqs') > Len(evalReqs) \/ Len(loops') > Len(loops))
          => ~(Falsy(cvId) \/ Falsy(projectId) \/ Falsy(jobDesc) \/ Falsy(brief))]_vars

\* C11 (amended): an /evaluate request is issued only in a state where all
\* four values are non-empty, and it carries them; a polling loop is started
\* only by the response to such a request, whatever the form holds by then.
CompleteRequest(req) ==
    ~(Falsy(req.cv_file_id) \/ Falsy(req.project_file_id)
        \/ Falsy(req.job_description) \/ Falsy(req.study_case_brief))

C11_RequestsCarryCompleteForm ==
    [][/\ Len(evalReqs') > Len(evalReqs) =>
             /\ ~(Falsy(cvId) \/ Falsy(projectId) \/ Falsy(jobDesc) \/ Falsy(brief))
             /\ CompleteRequest(evalReqs'[Len(evalReqs')])
       /\ Len(loops') > Len(loops) =>
             \E i \in 1..Len(evalReqs) :
                 /\ evalReqs' = Remove(evalReqs, i)
                 /\ CompleteRequest(evalReqs[i])]_vars

\* A polling loop has just been started while a text field is empty.
C11_Witness ==
    last.op = "pollResult" /\ loops # <<>> /\ (Falsy(jobDesc) \/ Falsy(brief))

\* C12: a poll request that fails (network failure or non-2xx status) and
\* is handled within maxWait is a soft retry (timer and error left as they
\* were) exactly when its HTTP status is 404; every other failure, whatever
\* its error body, cancels the timer and records the error.
RequestFailed(res) == ~res.net \/ ~ResOk(res)

C12_SoftRetryOnlyOnStatus404 ==
    [][\A l \in Loops : \A res \in ResultResponses(loops[l].id) :
          \A rand \in RandomDraws :
             (/\ PollSettle(l, res, rand)
              /\ RequestFailed(res)
              /\ Elapsed(l) <= maxWait
              /\ loops[l].inst = inst /\ loops[l].active)
             => IF res.net /\ res.status = 404
                THEN loops'[l].active /\ error' = error
                ELSE ~loops'[l].active /\ error' # ""]_vars

\* C13: once a poll response with status Failed has been handled, status
\* stays Failed and error stays the server's message (or the default) until
\* a new evaluation is started; here for a single submitted job and for
\* callbacks that run within maxWait, so that the timeout is not involved.
ServerFailureMessages == {"bad input", MsgEvaluationFailed}

C13_FailedIsFinal ==
    [][(/\ Len(loops) = 1 /\ evalReqs = <<>>
        /\ loops[1].inst = inst
        /\ status = "failed" /\ error \in ServerFailureMessages
        /\ Elapsed(1) <= maxWait
        /\ nEval' = nEval /\ inst' = inst)
       => (status' = "failed" /\ error' = error)]_vars

\* C14: a result is attached only while status is Completed.
C14_ResultOnlyWhenCompleted ==
    result # Absent => status = "completed"

\* C15: status only moves forward; here the part that does not depend on
\* what the backend answers: for a single submitted job, no step other than
\* a new evaluation or a remount moves status out of Completed or Failed,
\* in whatever order the responses of overlapping requests are delivered.
TerminalStatuses == {"completed", "failed"}

C15_NoStepOutOfTerminal ==
    [][(/\ Len(loops) = 1 /\ evalReqs = <<>>
        /\ status \in TerminalStatuses
        /\ nEval' = nEval /\ inst' = inst)
       => status' = status]_vars

\* C16: progress is 100 only if a Completed response for the currently
\* submitted job has been received; here for the step that follows a click
\* on Start Evaluation, when the new job's /evaluate request is unresolved
\* and no response about that job can exist: that step does not make
\* progress 100.
C16_NoCompletionBeforeJobExists ==
    [][(last.op = "evaluate" /\ evalReqs # <<>>)
       => progress' # ProgressCompleted]_vars

\* C17: under fair timer ticks every polling loop eventually stops, also
\* when the backend never reports a terminal status or never answers.
C17_EveryLoopStops ==
    (ActiveLoops # {}) ~> (ActiveLoops = {})

\* C18: after logout or page teardown no polling loop remains active: no
\* /result request is issued by a loop of a page instance that has been
\* left.
C18_NoRequestAfterTeardown ==
    [][\A l \in Loops : Tick(l) => loops[l].inst = inst]_vars

\* C19: localStorage holds both authToken and tenantId or neither, after
\* any sequence of login attempts and logouts; and a login whose request
\* fails or whose response lacks either field writes nothing to
\* localStorage and does not navigate.
LacksField(res) ==
    \/ Falsy(ParseBody(res.text).access_token)
    \/ Falsy(ParseBody(res.text).tenant_id)

C19_SessionAllOrNothing ==
    /\ []((lsAuthToken = Absent) <=> (lsTenantId = Absent))
    /\ [][\A res \in LoginResponses :
             (LoginSettle(res) /\ (~res.net \/ ~ResOk(res) \/ LacksField(res)))
             => UNCHANGED <<lsAuthToken, lsTenantId, nav>>]_vars

\* After a login, a logout and the return to the login page, a login
\* response lacking a field has just been rejected: nothing is stored and
\* no navigation is pending.
C19_Witness ==
    /\ last.op = "loginFailed" /\ loginError = MsgInvalidLogin
    /\ mounts > 0 /\ page = "login"
    /\ lsAuthToken = Absent /\ lsTenantId = Absent
    /\ nav = "none"

\* C20: on the evaluation page, when status is Queued or Processing while
\* no polling loop is active and no /evaluate request is unresolved, error
\* is non-empty.
InProgressStatuses == {"queued", "processing"}

C20_InProgressHasLoopOrError ==
    (/\ page = "evaluation"
     /\ status \in InProgressStatuses
     /\ ActiveLoops = {}
     /\ evalReqs = <<>>)
    => error # ""

====
